---- MODULE Spec2Model ----
(***************************************************************************)
(* Model of the cabourotte healthcheck component: the registry of          *)
(* healthchecks (Component, its Healthchecks map and its lock), the        *)
(* periodic driver of a healthcheck (DNSHealthcheck.Start / Stop, the      *)
(* tomb, the ticker and the result channel), the HTTP handlers that reach  *)
(* the registry, and the configuration validators of the probe kinds.      *)
(***************************************************************************)
EXTENDS Integers, Sequences, FiniteSets, TLC

(* ------------------------------------------------------------------ *)
(* Bounds                                                              *)
(* ------------------------------------------------------------------ *)
\* number of healthchecks that exist at a time: those resident in the map
\* and those started or stopped by an operation in progress
MaxInst == 2
\* capacity of the result channel handed to healthcheck.New
ChanCap == 1
\* number of concurrent callers of the registry (HTTP requests in flight)
NumProcs == 2

\* time.Second, in nanoseconds (the unit of Duration)
Second == 1000000000
\* the literal of ValidateDNSConfig's interval check
DNSMinInterval == 5

Names == {"a", "b"}
Procs == 1..NumProcs
NoCheck == 0

(* ------------------------------------------------------------------ *)
(* Configuration validation                                            *)
(* ------------------------------------------------------------------ *)
Config(kind, name, ident, port, timeout, interval, oneOff) ==
    [kind |-> kind, name |-> name, ident |-> ident, port |-> port,
     timeout |-> timeout, interval |-> interval, oneOff |-> oneOff,
     source |-> ""]

ValidateDNSConfig(config) ==
    IF config.name = "" THEN "name_missing"
    ELSE IF config.ident = "" THEN "domain_missing"
    ELSE IF config.interval < DNSMinInterval THEN "interval_too_small"
    ELSE "ok"

ValidateTCPConfig(config) ==
    IF config.name = "" THEN "name_missing"
    ELSE IF config.ident = "" THEN "target_missing"
    ELSE IF config.port = 0 THEN "port_missing"
    ELSE IF config.timeout = 0 THEN "timeout_missing"
    ELSE IF config.interval < 2 * Second THEN "interval_too_small"
    ELSE IF config.interval < config.timeout THEN "interval_lt_timeout"
    ELSE "ok"

ValidateCommandConfig(config) ==
    IF config.name = "" THEN "name_missing"
    ELSE IF config.ident = "" THEN "command_missing"
    ELSE IF config.timeout = 0 THEN "timeout_missing"
    ELSE IF ~config.oneOff /\ config.interval < 2 * Second
         THEN "interval_too_small"
    ELSE IF ~config.oneOff /\ config.interval < config.timeout
         THEN "interval_lt_timeout"
    ELSE "ok"

\* the validation a handler runs on the configuration it has bound
Validate(config) ==
    CASE config.kind = "dns"     -> ValidateDNSConfig(config)
      [] config.kind = "tcp"     -> ValidateTCPConfig(config)
      [] config.kind = "command" -> ValidateCommandConfig(config)

(* ------------------------------------------------------------------ *)
(* State                                                               *)
(* ------------------------------------------------------------------ *)
VARIABLES
    Healthchecks,   \* Component.Healthchecks: name -> started healthcheck, or NoCheck
    lock,           \* Component.lock: the caller holding it, or 0
    checks,         \* the healthchecks whose Start was called and that are still
                    \* referenced; a slot is free when it holds none
    ChanResult,     \* Component.ChanResult: the results buffered in the channel
    pc,             \* position of each caller in the operation it runs
    h,              \* the configuration of the healthcheck a caller is adding
    ident,          \* the identifier a caller removes (argument of removeCheck)
    existing,       \* the healthcheck whose Stop the caller awaits, or the one it started
    deleted,        \* whether the removeCheck of the caller's operation deleted an entry
    seen,           \* Component.Stop: names already visited by the range loop
    ret,            \* what the step just taken returned to a caller: the operation,
                    \* its name argument, its error and whether it deleted an
                    \* entry; NoRet when the step returned from no operation
    lifecycle,      \* "running", then "stopped" once Component.Stop has returned nil
    bulkLock,       \* bulkLock of the handlers: the request holding it, or 0
    oldChecks,      \* bulk request: the names SourceChecksNames returned
    newChecks,      \* bulk request: the names added so far
    payload,        \* bulk request: the healthchecks of the payload still to add
    cfg,            \* validation: the configuration under validation
    verr,           \* validation: what its validator returned
    exec,           \* execution: one started healthcheck, its tomb, its driver and
                    \* the Execute in progress
    deadline,       \* Command: a timeout and the deadline Execute derives from it
    http            \* HTTP server: which variant of the handlers is built, whether
                    \* the last request had the configured credentials, and the
                    \* response of the last one-off request

vars == <<Healthchecks, lock, checks, ChanResult, pc, h, ident, existing,
          deleted, seen, ret, lifecycle, bulkLock, oldChecks, newChecks,
          payload, cfg, verr, exec, deadline, http>>

opVars == <<Healthchecks, lock, pc, h, ident, existing, deleted, seen, lifecycle>>
regVars == <<opVars, ret>>
valVars == <<cfg, verr>>
bulkVars == <<bulkLock, oldChecks, newChecks, payload>>
execVars == <<exec, deadline>>

NoConfig == Config("dns", "", "", 0, 0, 0, FALSE)

\* the configurations the callers of the registry submit: healthcheck "a"
\* looks up a domain that resolves, healthcheck "b" one that does not
DNSConfig(name, domain, interval, oneOff) ==
    Config("dns", name, domain, 0, 0, interval, oneOff)

\* periodic healthchecks, the last one with an interval that validation rejects
PeriodicConfigs ==
    {DNSConfig("a", "example.com", 2 * Second, FALSE),
     DNSConfig("b", "nxdomain.invalid", 2 * Second, FALSE),
     DNSConfig("b", "nxdomain.invalid", 4, FALSE)}

OneOffConfigs ==
    {DNSConfig("a", "example.com", 2 * Second, TRUE),
     DNSConfig("b", "nxdomain.invalid", 2 * Second, TRUE)}

ReqConfigs == PeriodicConfigs \cup OneOffConfigs

\* the source tags of a healthcheck
SourceAPI == "api"
SourceFile == "file"

\* SetSource: the healthcheck records who created it
SetSource(config, source) == [config EXCEPT !.source = source]

\* DNSHealthcheck.Execute: net.LookupIP of the domain; an error when the
\* lookup fails (or returns no address)
Execute(config) == config.ident # "example.com"

Ret(op, name, err, del) == [op |-> op, name |-> name, err |-> err, deleted |-> del]
NoRet == Ret("", "", "", FALSE)

\* NewResult: the result of one execution (err = nil gives success)
NewResult(name, err) == [name |-> name, success |-> ~err]

NoResult == [name |-> "", success |-> FALSE]

\* a slot that holds no healthcheck
FreeCheck ==
    [name |-> "", config |-> NoConfig, drv |-> "free", dying |-> FALSE,
     staleTick |-> FALSE, result |-> NoResult, removed |-> FALSE]

Slots == 1..MaxInst
Ids == {i \in Slots : checks[i].drv # "free"}
FreeSlots == Slots \ Ids

Alive(i) == checks[i].drv \in {"select", "exec", "send"}

InitRegistry ==
    /\ Healthchecks = [n \in Names |-> NoCheck]
    /\ lock = 0
    /\ checks = [i \in Slots |-> FreeCheck]
    /\ ChanResult = <<>>
    /\ pc = [p \in Procs |-> "idle"]
    /\ h = [p \in Procs |-> NoConfig]
    /\ ident = [p \in Procs |-> ""]
    /\ existing = [p \in Procs |-> NoCheck]
    /\ deleted = [p \in Procs |-> FALSE]
    /\ seen = [p \in Procs |-> {}]
    /\ ret = NoRet
    /\ lifecycle = "running"
    /\ bulkLock = 0
    /\ oldChecks = [p \in Procs |-> {}]
    /\ newChecks = [p \in Procs |-> {}]
    /\ payload = [p \in Procs |-> <<>>]

\* no healthcheck under execution
NoExec ==
    [kind |-> "", timeout |-> 0, drv |-> "none", dying |-> FALSE, io |-> "none",
     elapsed |-> 0, err |-> "", stop |-> "idle"]

NoDeadline == [timeout |-> <<>>, deadline |-> <<>>]

Response(status, body, source, success, message) ==
    [status |-> status, body |-> body, source |-> source, success |-> success,
     message |-> message]

NoResponse == Response("", "", "", FALSE, "")

\* the two variants of the handlers in the source
Variants == {1, 2}

\* the server of the first variant of the handlers, no request received
NoHTTP == [variant |-> 1, authorized |-> TRUE, response |-> NoResponse]

Init ==
    /\ InitRegistry
    /\ cfg = NoConfig
    /\ verr = "unset"
    /\ http = NoHTTP
    /\ exec = NoExec
    /\ deadline = NoDeadline

(* ------------------------------------------------------------------ *)
(* The healthcheck: DNSHealthcheck.Start, its driver, Stop             *)
(* ------------------------------------------------------------------ *)
\* Start: a healthcheck with a ticker and one driver goroutine in its tomb
\* (time.NewTicker needs a positive interval: the configurations submitted
\* all have one)
Started(config) ==
    [name |-> config.name, config |-> config,
     drv |-> "select", dying |-> FALSE, staleTick |-> FALSE,
     result |-> NoResult, removed |-> FALSE]

\* Stop, first part: Tick.Stop() and t.Kill(nil).  The ticker fires no more;
\* a tick it had already put in Tick.C stays there (staleTick).
StopKill(i, tickInChannel) ==
    IF Alive(i) /\ ~checks[i].dying
    THEN [checks EXCEPT ![i].dying = TRUE, ![i].staleTick = tickInChannel]
    ELSE [checks EXCEPT ![i].dying = TRUE]

\* a Stop that returns an error: the driver did not terminate, the
\* healthcheck is left as it is
StopError(i) == checks

\* a Stop that does not wait for the driver: t.Wait() left out
StopWaitDone_NoWait(i) == TRUE

\* Stop, second part: t.Wait() returns once the driver goroutine has returned
StopWaitDone(i) == checks[i].drv = "dead"

\* driver, case <-h.Tick.C of the select
DriverTick(i) ==
    /\ checks[i].drv = "select"
    /\ ~checks[i].dying \/ checks[i].staleTick
    /\ checks' = [checks EXCEPT ![i].drv = "exec", ![i].staleTick = FALSE]
    /\ ret' = NoRet
    /\ UNCHANGED <<ChanResult, opVars, valVars, bulkVars, execVars, http>>

\* a driver that returns the error of Execute instead of sending a result
DriverExecute_ReturnsError(i) ==
    /\ checks[i].drv = "exec"
    /\ IF Execute(checks[i].config)
       THEN checks' = [checks EXCEPT ![i].drv = "dead"]
       ELSE checks' = [checks EXCEPT
                         ![i].drv = "send",
                         ![i].result = NewResult(checks[i].name, Execute(checks[i].config))]
    /\ ret' = NoRet
    /\ UNCHANGED <<ChanResult, opVars, valVars, bulkVars, execVars, http>>

\* driver, h.Execute() returns and NewResult wraps its error
DriverExecute(i) ==
    /\ checks[i].drv = "exec"
    /\ checks' = [checks EXCEPT
                    ![i].drv = "send",
                    ![i].result = NewResult(checks[i].name, Execute(checks[i].config))]
    /\ ret' = NoRet
    /\ UNCHANGED <<ChanResult, opVars, valVars, bulkVars, execVars, http>>

\* driver, h.ChanResult <- result: a plain channel send, ready when the
\* channel has room
SendReady(i) == Len(ChanResult) < ChanCap

\* a driver that drops its result when the channel has no room
DriverSend_DropWhenFull(i) ==
    /\ checks[i].drv = "send"
    /\ ChanResult' = IF SendReady(i) THEN Append(ChanResult, checks[i].result)
                                     ELSE ChanResult
    /\ checks' = [checks EXCEPT ![i].drv = "select", ![i].result = NoResult]
    /\ ret' = NoRet
    /\ UNCHANGED <<opVars, valVars, bulkVars, execVars, http>>

DriverSend(i) ==
    /\ checks[i].drv = "send"
    /\ SendReady(i)
    /\ ChanResult' = Append(ChanResult, checks[i].result)
    /\ checks' = [checks EXCEPT ![i].drv = "select", ![i].result = NoResult]
    /\ ret' = NoRet
    /\ UNCHANGED <<opVars, valVars, bulkVars, execVars, http>>

\* driver, case <-h.t.Dying() of the select: the goroutine returns
DriverDying(i) ==
    /\ checks[i].drv = "select"
    /\ checks[i].dying
    /\ checks' = [checks EXCEPT ![i].drv = "dead", ![i].staleTick = FALSE]
    /\ ret' = NoRet
    /\ UNCHANGED <<ChanResult, opVars, valVars, bulkVars, execVars, http>>

DriverStep(i) ==
    DriverTick(i) \/ DriverExecute(i) \/ DriverSend(i) \/ DriverDying(i)

\* the consumer of the result channel receives one result
Receive ==
    /\ Len(ChanResult) > 0
    /\ ChanResult' = Tail(ChanResult)
    /\ ret' = NoRet
    /\ UNCHANGED <<checks, opVars, valVars, bulkVars, execVars, http>>

(* ------------------------------------------------------------------ *)
(* The registry: Component.AddCheck, RemoveCheck, removeCheck, Stop    *)
(* ------------------------------------------------------------------ *)
\* a caller enters an operation: c.lock.Lock() has returned
Begin(p, label, config, name) ==
    /\ lock = 0
    /\ lock' = p
    /\ pc' = [pc EXCEPT ![p] = label]
    /\ h' = [h EXCEPT ![p] = config]
    /\ ident' = [ident EXCEPT ![p] = name]
    /\ ret' = NoRet

\* a step inside an operation: the caller moves to label
Goto(p, label) ==
    /\ pc' = [pc EXCEPT ![p] = label]
    /\ ret' = NoRet

\* an operation returns r to its caller; its locals go out of scope
Return(p, r) ==
    /\ pc' = [pc EXCEPT ![p] = "idle"]
    /\ ret' = r
    /\ h' = [h EXCEPT ![p] = NoConfig]
    /\ ident' = [ident EXCEPT ![p] = ""]
    /\ existing' = [existing EXCEPT ![p] = NoCheck]
    /\ deleted' = [deleted EXCEPT ![p] = FALSE]
    /\ seen' = [seen EXCEPT ![p] = {}]

\* defer c.lock.Unlock()
Unlock(p) == lock' = 0

\* an AddCheck that deletes the entry of the name before it calls Initialize
AddCheck_DeleteBeforeInitialize(p, config, initErr) ==
    /\ pc[p] = "idle"
    /\ IF initErr
       THEN /\ Return(p, Ret("AddCheck", config.name, "init", FALSE))
            /\ Healthchecks' = [Healthchecks EXCEPT ![config.name] = NoCheck]
            /\ UNCHANGED lock
       ELSE /\ Begin(p, "add_remove", config, config.name)
            /\ UNCHANGED <<Healthchecks, existing, deleted, seen>>
    /\ UNCHANGED <<checks, ChanResult, lifecycle, valVars, bulkVars, execVars, http>>

\* AddCheck: healthcheck.Initialize(), which may return an error, then
\* c.lock.Lock()
AddCheck(p, config, initErr) ==
    /\ pc[p] = "idle"
    /\ IF initErr
       THEN /\ Return(p, Ret("AddCheck", config.name, "init", FALSE))
            /\ UNCHANGED lock
       ELSE /\ Begin(p, "add_remove", config, config.name)
            /\ UNCHANGED <<existing, deleted, seen>>
    /\ UNCHANGED <<Healthchecks, checks, ChanResult, lifecycle, valVars, bulkVars, execVars, http>>

\* RemoveCheck: c.lock.Lock()
RemoveCheck(p, name) ==
    /\ pc[p] = "idle"
    /\ Begin(p, "rm_remove", NoConfig, name)
    /\ UNCHANGED <<Healthchecks, checks, ChanResult, existing, deleted, seen,
                   lifecycle, valVars, bulkVars, execVars, http>>

\* Component.Stop: c.lock.Lock()
Stop(p) ==
    /\ pc[p] = "idle"
    /\ Begin(p, "stop_loop", NoConfig, "")
    /\ UNCHANGED <<Healthchecks, checks, ChanResult, existing, deleted, seen,
                   lifecycle, valVars, bulkVars, execVars, http>>

\* the operation whose removeCheck the caller runs
OpOf(p) == IF pc[p] \in {"add_remove", "add_wait"} THEN "AddCheck" ELSE "RemoveCheck"

\* a removeCheck that deletes the entry although Stop returned an error
removeCheck_DeleteOnStopError(p, stopErr) ==
    /\ pc[p] \in {"add_remove", "rm_remove"}
    /\ LET e == Healthchecks[ident[p]] IN
       IF e = NoCheck
       THEN /\ ~stopErr
            /\ IF pc[p] = "add_remove"
               THEN /\ Goto(p, "add_start")
                    /\ UNCHANGED <<lock, h, ident, existing, deleted, seen>>
               ELSE /\ Return(p, Ret("RemoveCheck", ident[p], "nil", FALSE))
                    /\ Unlock(p)
            /\ UNCHANGED <<Healthchecks, checks>>
       ELSE IF stopErr
       THEN /\ Return(p, Ret(OpOf(p), ident[p], "stop", FALSE))
            /\ Unlock(p)
            /\ checks' = StopError(e)
            /\ Healthchecks' = [Healthchecks EXCEPT ![ident[p]] = NoCheck]
       ELSE /\ \E tickInChannel \in BOOLEAN : checks' = StopKill(e, tickInChannel)
            /\ existing' = [existing EXCEPT ![p] = e]
            /\ Goto(p, IF pc[p] = "add_remove" THEN "add_wait" ELSE "rm_wait")
            /\ UNCHANGED <<Healthchecks, lock, h, ident, deleted, seen>>
    /\ UNCHANGED <<ChanResult, lifecycle, valVars, bulkVars, execVars, http>>

\* a removeCheck that finds no healthcheck whatever the map holds
removeCheck_NotFound(p, stopErr) ==
    /\ pc[p] \in {"add_remove", "rm_remove"}
    /\ ~stopErr
    /\ IF pc[p] = "add_remove"
       THEN /\ Goto(p, "add_start")
            /\ UNCHANGED <<lock, h, ident, existing, deleted, seen>>
       ELSE /\ Return(p, Ret("RemoveCheck", ident[p], "nil", FALSE))
            /\ Unlock(p)
    /\ UNCHANGED <<Healthchecks, checks, ChanResult, lifecycle, valVars, bulkVars, execVars, http>>

\* removeCheck: the lookup and existingCheck.Stop() up to its t.Wait(),
\* or up to the error Stop returns
removeCheck(p, stopErr) ==
    /\ pc[p] \in {"add_remove", "rm_remove"}
    /\ LET e == Healthchecks[ident[p]] IN
       IF e = NoCheck
       THEN \* not found: removeCheck returns nil
            /\ ~stopErr
            /\ IF pc[p] = "add_remove"
               THEN /\ Goto(p, "add_start")
                    /\ UNCHANGED <<lock, h, ident, existing, deleted, seen>>
               ELSE /\ Return(p, Ret("RemoveCheck", ident[p], "nil", FALSE))
                    /\ Unlock(p)
            /\ UNCHANGED checks
       ELSE IF stopErr
       THEN /\ Return(p, Ret(OpOf(p), ident[p], "stop", FALSE))
            /\ Unlock(p)
            /\ checks' = StopError(e)
       ELSE /\ \E tickInChannel \in BOOLEAN : checks' = StopKill(e, tickInChannel)
            /\ existing' = [existing EXCEPT ![p] = e]
            /\ Goto(p, IF pc[p] = "add_remove" THEN "add_wait" ELSE "rm_wait")
            /\ UNCHANGED <<lock, h, ident, deleted, seen>>
    /\ UNCHANGED <<Healthchecks, ChanResult, lifecycle, valVars, bulkVars, execVars, http>>

\* the healthcheck that removeCheck deleted from the map is referenced no
\* more: once its driver has returned nothing of it is left
Unreferenced(i) ==
    IF checks[i].drv = "dead"
    THEN [checks EXCEPT ![i] = FreeCheck]
    ELSE [checks EXCEPT ![i].removed = TRUE]

\* a removeCheck that stops the healthcheck and leaves its entry in the map
removeCheckDelete_KeepEntry(p) ==
    /\ pc[p] \in {"add_wait", "rm_wait"}
    /\ StopWaitDone(existing[p])
    /\ IF pc[p] = "add_wait"
       THEN /\ Goto(p, "add_start")
            /\ existing' = [existing EXCEPT ![p] = NoCheck]
            /\ deleted' = [deleted EXCEPT ![p] = TRUE]
            /\ UNCHANGED <<lock, h, ident, seen>>
       ELSE /\ Return(p, Ret("RemoveCheck", ident[p], "nil", TRUE))
            /\ Unlock(p)
    /\ UNCHANGED <<Healthchecks, checks, ChanResult, lifecycle, valVars, bulkVars, execVars, http>>

\* a removeCheck that empties the map instead of deleting one entry
removeCheckDelete_ClearMap(p) ==
    /\ pc[p] \in {"add_wait", "rm_wait"}
    /\ StopWaitDone(existing[p])
    /\ Healthchecks' = [n \in Names |-> NoCheck]
    /\ checks' = Unreferenced(existing[p])
    /\ IF pc[p] = "add_wait"
       THEN /\ Goto(p, "add_start")
            /\ existing' = [existing EXCEPT ![p] = NoCheck]
            /\ deleted' = [deleted EXCEPT ![p] = TRUE]
            /\ UNCHANGED <<lock, h, ident, seen>>
       ELSE /\ Return(p, Ret("RemoveCheck", ident[p], "nil", TRUE))
            /\ Unlock(p)
    /\ UNCHANGED <<ChanResult, lifecycle, valVars, bulkVars, execVars, http>>

\* removeCheck: Stop has returned nil, delete(c.Healthchecks, identifier)
removeCheckDelete(p) ==
    /\ pc[p] \in {"add_wait", "rm_wait"}
    /\ StopWaitDone(existing[p])
    /\ Healthchecks' = [Healthchecks EXCEPT ![ident[p]] = NoCheck]
    /\ checks' = Unreferenced(existing[p])
    /\ IF pc[p] = "add_wait"
       THEN /\ Goto(p, "add_start")
            /\ existing' = [existing EXCEPT ![p] = NoCheck]
            /\ deleted' = [deleted EXCEPT ![p] = TRUE]
            /\ UNCHANGED <<lock, h, ident, seen>>
       ELSE /\ Return(p, Ret("RemoveCheck", ident[p], "nil", TRUE))
            /\ Unlock(p)
    /\ UNCHANGED <<ChanResult, lifecycle, valVars, bulkVars, execVars, http>>

\* an AddCheck that inserts the healthcheck although its Start failed
AddCheckStart_InsertOnError(p, startErr) ==
    /\ pc[p] = "add_start"
    /\ FreeSlots # {}
    /\ LET i == CHOOSE k \in FreeSlots : \A m \in FreeSlots : k <= m IN
         IF startErr
         THEN /\ checks' = [checks EXCEPT ![i] = [Started(h[p]) EXCEPT !.drv = "dead"]]
              /\ Healthchecks' = [Healthchecks EXCEPT ![ident[p]] = i]
              /\ Return(p, Ret("AddCheck", ident[p], "start", deleted[p]))
              /\ Unlock(p)
         ELSE /\ checks' = [checks EXCEPT ![i] = Started(h[p])]
              /\ existing' = [existing EXCEPT ![p] = i]
              /\ Goto(p, "add_insert")
              /\ UNCHANGED <<Healthchecks, lock, h, ident, deleted, seen>>
    /\ UNCHANGED <<ChanResult, lifecycle, valVars, bulkVars, execVars, http>>

\* AddCheck: healthcheck.Start(c.ChanResult), which may return an error
AddCheckStart(p, startErr) ==
    /\ pc[p] = "add_start"
    /\ IF startErr
       THEN /\ Return(p, Ret("AddCheck", ident[p], "start", deleted[p]))
            /\ Unlock(p)
            /\ UNCHANGED checks
       ELSE /\ FreeSlots # {}
            /\ LET i == CHOOSE k \in FreeSlots : \A m \in FreeSlots : k <= m IN
                 /\ checks' = [checks EXCEPT ![i] = Started(h[p])]
                 /\ existing' = [existing EXCEPT ![p] = i]
            /\ Goto(p, "add_insert")
            /\ UNCHANGED <<lock, h, ident, deleted, seen>>
    /\ UNCHANGED <<Healthchecks, ChanResult, lifecycle, valVars, bulkVars, execVars, http>>

\* AddCheck: c.Healthchecks[healthcheck.Name()] = healthcheck; return nil
AddCheckInsert(p) ==
    /\ pc[p] = "add_insert"
    /\ Healthchecks' = [Healthchecks EXCEPT ![ident[p]] = existing[p]]
    /\ Return(p, Ret("AddCheck", ident[p], "nil", deleted[p]))
    /\ Unlock(p)
    /\ UNCHANGED <<checks, ChanResult, lifecycle, valVars, bulkVars, execVars, http>>

\* Component.Stop: one iteration of the range over c.Healthchecks (in the
\* order the map yields), or the end of the loop
StopLoop(p, stopErr) ==
    /\ pc[p] = "stop_loop"
    /\ LET left == {n \in Names : Healthchecks[n] # NoCheck} \ seen[p] IN
       IF left = {}
       THEN /\ ~stopErr
            /\ Return(p, Ret("Stop", "", "nil", FALSE))
            /\ Unlock(p)
            /\ lifecycle' = "stopped"
            /\ UNCHANGED checks
       ELSE \E n \in left :
            IF stopErr
            THEN /\ Return(p, Ret("Stop", "", "stop", FALSE))
                 /\ Unlock(p)
                 /\ checks' = StopError(Healthchecks[n])
                 /\ UNCHANGED lifecycle
            ELSE /\ \E tickInChannel \in BOOLEAN :
                      checks' = StopKill(Healthchecks[n], tickInChannel)
                 /\ existing' = [existing EXCEPT ![p] = Healthchecks[n]]
                 /\ ident' = [ident EXCEPT ![p] = n]
                 /\ Goto(p, "stop_wait")
                 /\ UNCHANGED <<lock, h, deleted, seen, lifecycle>>
    /\ UNCHANGED <<Healthchecks, ChanResult, valVars, bulkVars, execVars, http>>

\* Component.Stop: healthcheck.Stop() has returned nil, next iteration
StopWait(p) ==
    /\ pc[p] = "stop_wait"
    /\ StopWaitDone(existing[p])
    /\ seen' = [seen EXCEPT ![p] = @ \cup {ident[p]}]
    /\ existing' = [existing EXCEPT ![p] = NoCheck]
    /\ ident' = [ident EXCEPT ![p] = ""]
    /\ Goto(p, "stop_loop")
    /\ UNCHANGED <<Healthchecks, lock, checks, ChanResult, h, deleted, lifecycle, valVars, bulkVars, execVars, http>>

(* ------------------------------------------------------------------ *)
(* The HTTP handlers                                                   *)
(* ------------------------------------------------------------------ *)
\* a handleCheck that does not test OneOff: every valid healthcheck goes to
\* addCheck
handleCheck_NoOneOff(p, config, initErr) ==
    /\ pc[p] = "idle"
    /\ IF Validate(config) # "ok"
       THEN /\ ~initErr
            /\ Return(p, Ret("handler", config.name, "bad_request", FALSE))
            /\ UNCHANGED lock
       ELSE IF initErr
       THEN /\ Return(p, Ret("AddCheck", config.name, "init", FALSE))
            /\ UNCHANGED lock
       ELSE /\ Begin(p, "add_remove", SetSource(config, SourceAPI), config.name)
            /\ UNCHANGED <<existing, deleted, seen>>
    /\ UNCHANGED <<Healthchecks, checks, ChanResult, lifecycle, valVars, bulkVars, execVars>>

\* the handler of POST /healthcheck/dns: config.Validate(), then
\* handleCheck: a one-off healthcheck is initialized and executed once
\* (oneOff), another one goes to addCheck, which tags it with the api source
\* and calls AddCheck
handleCheck(p, config, initErr) ==
    /\ pc[p] = "idle"
    /\ IF Validate(config) # "ok"
       THEN /\ ~initErr
            /\ Return(p, Ret("handler", config.name, "bad_request", FALSE))
            /\ UNCHANGED lock
       ELSE IF config.oneOff
       THEN /\ Return(p, Ret("oneOff", config.name,
                             IF initErr THEN "init"
                             ELSE IF Execute(config) THEN "execute" ELSE "nil", FALSE))
            /\ UNCHANGED lock
       ELSE IF initErr
       THEN /\ Return(p, Ret("AddCheck", config.name, "init", FALSE))
            /\ UNCHANGED lock
       ELSE /\ Begin(p, "add_remove", SetSource(config, SourceAPI), config.name)
            /\ UNCHANGED <<existing, deleted, seen>>
    /\ UNCHANGED <<Healthchecks, checks, ChanResult, lifecycle, valVars, bulkVars, execVars>>

\* POST /healthcheck/dns on a server with no Basic Auth configured
PostHealthcheck(p, config, initErr) ==
    /\ handleCheck(p, config, initErr)
    /\ UNCHANGED http

\* the credentials of the configuration (Config.BasicAuth) and those that
\* requests carry
BasicAuthUsername == "admin"
BasicAuthPassword == "secret"
Usernames == {"admin", "eve"}
Passwords == {"secret", "guess"}

\* subtle.ConstantTimeCompare(x, y) == 1: the byte strings are equal
ConstantTimeCompare(x, y) == IF x = y THEN 1 ELSE 0

\* the validator given to middleware.BasicAuth: true for the configured
\* credentials; for other credentials the first variant returns false and
\* the second variant returns true
BasicAuthValidator(variant, username, password) ==
    IF ConstantTimeCompare(username, BasicAuthUsername) = 1
       /\ ConstantTimeCompare(password, BasicAuthPassword) = 1
    THEN TRUE
    ELSE variant = 2

\* POST /healthcheck/dns on a server with Basic Auth configured: the
\* middleware calls the handler when the validator returns true and answers
\* 401 when it returns false
AuthPostHealthcheck(p, username, password, config, initErr) ==
    /\ pc[p] = "idle"
    /\ http' = [http EXCEPT !.authorized = (username = BasicAuthUsername
                                            /\ password = BasicAuthPassword)]
    /\ IF BasicAuthValidator(http.variant, username, password)
       THEN handleCheck(p, config, initErr)
       ELSE /\ ~initErr
            /\ Return(p, Ret("BasicAuth", "", "unauthorized", FALSE))
            /\ UNCHANGED <<Healthchecks, lock, checks, ChanResult, lifecycle, valVars,
                           bulkVars, execVars>>

\* DELETE /healthcheck/:name calls RemoveCheck(name): the action RemoveCheck

Next ==
    \/ \E p \in Procs, c \in PeriodicConfigs, initErr \in BOOLEAN :
         AddCheck(p, SetSource(c, SourceAPI), initErr)
    \/ \E p \in Procs, c \in ReqConfigs, initErr \in BOOLEAN : PostHealthcheck(p, c, initErr)
    \/ \E p \in Procs, n \in Names : RemoveCheck(p, n)
    \/ \E p \in Procs : Stop(p)
    \/ \E p \in Procs, stopErr \in BOOLEAN : removeCheck(p, stopErr)
    \/ \E p \in Procs : removeCheckDelete(p)
    \/ \E p \in Procs, startErr \in BOOLEAN : AddCheckStart(p, startErr)
    \/ \E p \in Procs : AddCheckInsert(p)
    \/ \E p \in Procs, stopErr \in BOOLEAN : StopLoop(p, stopErr)
    \/ \E p \in Procs : StopWait(p)
    \/ \E i \in Ids : DriverTick(i)
    \/ \E i \in Ids : DriverExecute(i)
    \/ \E i \in Ids : DriverSend(i)
    \/ \E i \in Ids : DriverDying(i)
    \/ Receive

Spec == Init /\ [][Next]_vars

\* the registry with callers of AddCheck and RemoveCheck only: Component.Stop
\* is never called
NextAddRemove ==
    \/ \E p \in Procs, c \in PeriodicConfigs, initErr \in BOOLEAN :
         AddCheck(p, SetSource(c, SourceAPI), initErr)
    \/ \E p \in Procs, c \in ReqConfigs, initErr \in BOOLEAN : PostHealthcheck(p, c, initErr)
    \/ \E p \in Procs, n \in Names : RemoveCheck(p, n)
    \/ \E p \in Procs, stopErr \in BOOLEAN : removeCheck(p, stopErr)
    \/ \E p \in Procs : removeCheckDelete(p)
    \/ \E p \in Procs, startErr \in BOOLEAN : AddCheckStart(p, startErr)
    \/ \E p \in Procs : AddCheckInsert(p)
    \/ \E i \in Ids : DriverTick(i)
    \/ \E i \in Ids : DriverExecute(i)
    \/ \E i \in Ids : DriverSend(i)
    \/ \E i \in Ids : DriverDying(i)
    \/ Receive

SpecAddRemove == Init /\ [][NextAddRemove]_vars

\* the server with Basic Auth configured, in either variant of the handlers
InitAuth ==
    /\ InitRegistry
    /\ cfg = NoConfig
    /\ verr = "unset"
    /\ exec = NoExec
    /\ deadline = NoDeadline
    /\ \E variant \in Variants : http = [NoHTTP EXCEPT !.variant = variant]

NextAuth ==
    \/ \E p \in Procs, username \in Usernames, password \in Passwords,
          c \in ReqConfigs, initErr \in BOOLEAN :
         AuthPostHealthcheck(p, username, password, c, initErr)
    \/ \E p \in Procs, stopErr \in BOOLEAN : removeCheck(p, stopErr)
    \/ \E p \in Procs : removeCheckDelete(p)
    \/ \E p \in Procs, startErr \in BOOLEAN : AddCheckStart(p, startErr)
    \/ \E p \in Procs : AddCheckInsert(p)
    \/ \E i \in Ids : DriverTick(i)
    \/ \E i \in Ids : DriverExecute(i)
    \/ \E i \in Ids : DriverSend(i)
    \/ \E i \in Ids : DriverDying(i)
    \/ Receive

SpecAuth == InitAuth /\ [][NextAuth]_vars

(* ------------------------------------------------------------------ *)
(* The bulk handler: POST /healthcheck/bulk                            *)
(* ------------------------------------------------------------------ *)
\* the payloads of the bulk requests: DNS healthchecks in the order of the
\* payload; one payload has a healthcheck that validation rejects, and one a
\* healthcheck with one-off set
BulkPayloads ==
    LET a == DNSConfig("a", "example.com", 2 * Second, FALSE)
        b == DNSConfig("b", "nxdomain.invalid", 2 * Second, FALSE)
        bad == DNSConfig("b", "nxdomain.invalid", 4, FALSE)
        once == DNSConfig("a", "example.com", 2 * Second, TRUE)
    IN  {<<a>>, <<b>>, <<a, b>>, <<a, bad>>, <<once>>}

\* payload.Validate(): every healthcheck of the payload is valid
PayloadValidate(pl) == \A k \in 1..Len(pl) : Validate(pl[k]) = "ok"

\* SourceChecksNames: the names of the resident healthchecks of a source
SourceChecksNames(source) ==
    {n \in Names : Healthchecks[n] # NoCheck
                   /\ checks[Healthchecks[n]].config.source = source}

BulkLabels == {"bulk_add", "bulk_wait", "bulk_reconcile", "bulk_rwait"}

\* the first slot of c that holds no healthcheck
FirstFree(c) ==
    CHOOSE k \in Slots : c[k].drv = "free" /\ \A m \in Slots : c[m].drv = "free" => k <= m

\* the bulk handler answers the request: defer bulkLock.Unlock()
BulkReturn(p, r) ==
    /\ Return(p, r)
    /\ bulkLock' = 0
    /\ oldChecks' = [oldChecks EXCEPT ![p] = {}]
    /\ newChecks' = [newChecks EXCEPT ![p] = {}]
    /\ payload' = [payload EXCEPT ![p] = <<>>]

\* a bulk handler that does not take bulkLock
PostBulk_NoBulkLock(p, pl) ==
    /\ pc[p] = "idle"
    /\ lock = 0
    /\ IF ~PayloadValidate(pl)
       THEN /\ Return(p, Ret("bulk", "", "bad_request", FALSE))
            /\ UNCHANGED bulkVars
       ELSE /\ oldChecks' = [oldChecks EXCEPT ![p] = SourceChecksNames(SourceAPI)]
            /\ newChecks' = [newChecks EXCEPT ![p] = {}]
            /\ payload' = [payload EXCEPT ![p] = pl]
            /\ Goto(p, "bulk_add")
            /\ UNCHANGED <<bulkLock, h, ident, existing, deleted, seen>>
    /\ UNCHANGED <<Healthchecks, lock, checks, ChanResult, lifecycle, valVars, execVars, http>>

\* the bulk handler: bulkLock.Lock(), the snapshot of the api names (under
\* the reader lock of the registry), then Bind and payload.Validate()
PostBulk(p, pl) ==
    /\ pc[p] = "idle"
    /\ bulkLock = 0
    /\ lock = 0
    /\ IF ~PayloadValidate(pl)
       THEN /\ Return(p, Ret("bulk", "", "bad_request", FALSE))
            /\ UNCHANGED bulkVars
       ELSE /\ bulkLock' = p
            /\ oldChecks' = [oldChecks EXCEPT ![p] = SourceChecksNames(SourceAPI)]
            /\ newChecks' = [newChecks EXCEPT ![p] = {}]
            /\ payload' = [payload EXCEPT ![p] = pl]
            /\ Goto(p, "bulk_add")
            /\ UNCHANGED <<h, ident, existing, deleted, seen>>
    /\ UNCHANGED <<Healthchecks, lock, checks, ChanResult, lifecycle, valVars, execVars, http>>

\* the bulk handler, one iteration of its loops: addCheck of the next
\* healthcheck of the payload (SetSource, then AddCheck up to the t.Wait()
\* of the Stop of the healthcheck it replaces, or to its return); after the
\* last one the handler goes to RemoveNonConfiguredHealthchecks
BulkAdd(p, initErr, stopErr, startErr) ==
    /\ pc[p] = "bulk_add"
    /\ IF payload[p] = <<>>
       THEN /\ ~initErr /\ ~stopErr /\ ~startErr
            /\ Goto(p, "bulk_reconcile")
            /\ UNCHANGED <<Healthchecks, lock, checks, h, ident, existing, deleted,
                           seen, bulkVars>>
       ELSE LET config == SetSource(Head(payload[p]), SourceAPI)
                e == Healthchecks[config.name]
            IN  IF initErr
                THEN /\ ~stopErr /\ ~startErr
                     /\ BulkReturn(p, Ret("bulk", config.name, "init", FALSE))
                     /\ UNCHANGED <<Healthchecks, lock, checks>>
                ELSE /\ lock = 0
                     /\ IF e # NoCheck /\ stopErr
                        THEN /\ ~startErr
                             /\ BulkReturn(p, Ret("bulk", config.name, "stop", FALSE))
                             /\ checks' = StopError(e)
                             /\ UNCHANGED <<Healthchecks, lock>>
                        ELSE IF e # NoCheck
                        THEN /\ ~startErr
                             /\ \E tickInChannel \in BOOLEAN :
                                  checks' = StopKill(e, tickInChannel)
                             /\ lock' = p
                             /\ h' = [h EXCEPT ![p] = config]
                             /\ ident' = [ident EXCEPT ![p] = config.name]
                             /\ existing' = [existing EXCEPT ![p] = e]
                             /\ Goto(p, "bulk_wait")
                             /\ UNCHANGED <<Healthchecks, deleted, seen, bulkVars>>
                        ELSE IF startErr
                        THEN /\ ~stopErr
                             /\ BulkReturn(p, Ret("bulk", config.name, "start", FALSE))
                             /\ UNCHANGED <<Healthchecks, lock, checks>>
                        ELSE /\ ~stopErr
                             /\ \E k \in Slots : checks[k].drv = "free"
                             /\ checks' = [checks EXCEPT ![FirstFree(checks)] = Started(config)]
                             /\ Healthchecks' = [Healthchecks EXCEPT
                                                   ![config.name] = FirstFree(checks)]
                             /\ newChecks' = [newChecks EXCEPT ![p] = @ \cup {config.name}]
                             /\ payload' = [payload EXCEPT ![p] = Tail(@)]
                             /\ ret' = NoRet
                             /\ UNCHANGED <<lock, pc, h, ident, existing, deleted, seen,
                                            bulkLock, oldChecks>>
    /\ UNCHANGED <<ChanResult, lifecycle, valVars, execVars, http>>

\* the bulk handler, AddCheck after the Stop of the replaced healthcheck has
\* returned nil: delete, Start, the map assignment, and the next iteration
BulkAddWait(p, startErr) ==
    /\ pc[p] = "bulk_wait"
    /\ StopWaitDone(existing[p])
    /\ lock' = 0
    /\ LET freed == Unreferenced(existing[p]) IN
       IF startErr
       THEN /\ BulkReturn(p, Ret("bulk", ident[p], "start", TRUE))
            /\ checks' = freed
            /\ Healthchecks' = [Healthchecks EXCEPT ![ident[p]] = NoCheck]
       ELSE /\ \E k \in Slots : freed[k].drv = "free"
            /\ checks' = [freed EXCEPT ![FirstFree(freed)] = Started(h[p])]
            /\ Healthchecks' = [Healthchecks EXCEPT ![ident[p]] = FirstFree(freed)]
            /\ newChecks' = [newChecks EXCEPT ![p] = @ \cup {ident[p]}]
            /\ payload' = [payload EXCEPT ![p] = Tail(@)]
            /\ h' = [h EXCEPT ![p] = NoConfig]
            /\ ident' = [ident EXCEPT ![p] = ""]
            /\ existing' = [existing EXCEPT ![p] = NoCheck]
            /\ Goto(p, "bulk_add")
            /\ UNCHANGED <<deleted, seen, bulkLock, oldChecks>>
    /\ UNCHANGED <<ChanResult, lifecycle, valVars, execVars, http>>

\* a RemoveNonConfiguredHealthchecks that removes every old name
BulkReconcile_RemoveAllOld(p) ==
    /\ pc[p] = "bulk_reconcile"
    /\ LET left == oldChecks[p] \ seen[p] IN
       IF left = {}
       THEN /\ BulkReturn(p, Ret("bulk", "", "nil", seen[p] # {}))
            /\ UNCHANGED <<Healthchecks, lock, checks>>
       ELSE /\ lock = 0
            /\ \E n \in left :
                 IF Healthchecks[n] = NoCheck
                 THEN /\ seen' = [seen EXCEPT ![p] = @ \cup {n}]
                      /\ ret' = NoRet
                      /\ UNCHANGED <<lock, checks, pc, h, ident, existing, deleted>>
                 ELSE /\ \E tickInChannel \in BOOLEAN :
                           checks' = StopKill(Healthchecks[n], tickInChannel)
                      /\ lock' = p
                      /\ ident' = [ident EXCEPT ![p] = n]
                      /\ existing' = [existing EXCEPT ![p] = Healthchecks[n]]
                      /\ Goto(p, "bulk_rwait")
                      /\ UNCHANGED <<h, deleted, seen>>
            /\ UNCHANGED <<Healthchecks, bulkVars>>
    /\ UNCHANGED <<ChanResult, lifecycle, valVars, execVars, http>>

\* the bulk handler, RemoveNonConfiguredHealthchecks(oldChecks, newChecks):
\* RemoveCheck of the next old name that the request did not add (up to the
\* t.Wait() of Stop), or the answer of the handler after the last one
BulkReconcile(p) ==
    /\ pc[p] = "bulk_reconcile"
    /\ LET left == (oldChecks[p] \ newChecks[p]) \ seen[p] IN
       IF left = {}
       THEN /\ BulkReturn(p, Ret("bulk", "", "nil", seen[p] # {}))
            /\ UNCHANGED <<Healthchecks, lock, checks>>
       ELSE /\ lock = 0
            /\ \E n \in left :
                 IF Healthchecks[n] = NoCheck
                 THEN /\ seen' = [seen EXCEPT ![p] = @ \cup {n}]
                      /\ ret' = NoRet
                      /\ UNCHANGED <<lock, checks, pc, h, ident, existing, deleted>>
                 ELSE /\ \E tickInChannel \in BOOLEAN :
                           checks' = StopKill(Healthchecks[n], tickInChannel)
                      /\ lock' = p
                      /\ ident' = [ident EXCEPT ![p] = n]
                      /\ existing' = [existing EXCEPT ![p] = Healthchecks[n]]
                      /\ Goto(p, "bulk_rwait")
                      /\ UNCHANGED <<h, deleted, seen>>
            /\ UNCHANGED <<Healthchecks, bulkVars>>
    /\ UNCHANGED <<ChanResult, lifecycle, valVars, execVars, http>>

\* RemoveNonConfiguredHealthchecks: the Stop of the removed healthcheck has
\* returned nil, delete, and the next name
BulkReconcileWait(p) ==
    /\ pc[p] = "bulk_rwait"
    /\ StopWaitDone(existing[p])
    /\ lock' = 0
    /\ checks' = Unreferenced(existing[p])
    /\ Healthchecks' = [Healthchecks EXCEPT ![ident[p]] = NoCheck]
    /\ seen' = [seen EXCEPT ![p] = @ \cup {ident[p]}]
    /\ ident' = [ident EXCEPT ![p] = ""]
    /\ existing' = [existing EXCEPT ![p] = NoCheck]
    /\ Goto(p, "bulk_reconcile")
    /\ UNCHANGED <<h, deleted, ChanResult, lifecycle, valVars, bulkVars, execVars, http>>

\* the registry with callers of the bulk handler only
NextBulk ==
    \/ \E p \in Procs, pl \in BulkPayloads : PostBulk(p, pl)
    \/ \E p \in Procs, initErr \in BOOLEAN, stopErr \in BOOLEAN, startErr \in BOOLEAN :
         BulkAdd(p, initErr, stopErr, startErr)
    \/ \E p \in Procs, startErr \in BOOLEAN : BulkAddWait(p, startErr)
    \/ \E p \in Procs : BulkReconcile(p)
    \/ \E p \in Procs : BulkReconcileWait(p)
    \/ \E i \in Ids : DriverTick(i) /\ UNCHANGED bulkVars
    \/ \E i \in Ids : DriverExecute(i) /\ UNCHANGED bulkVars
    \/ \E i \in Ids : DriverSend(i) /\ UNCHANGED bulkVars
    \/ \E i \in Ids : DriverDying(i) /\ UNCHANGED bulkVars
    \/ Receive /\ UNCHANGED bulkVars

\* the registry when the requests begin: empty, or with the healthcheck "b"
\* that the configuration file declares (source file) started and resident
FileConfig == SetSource(DNSConfig("b", "nxdomain.invalid", 2 * Second, FALSE), SourceFile)

InitBulk ==
    /\ lock = 0
    /\ ChanResult = <<>>
    /\ pc = [p \in Procs |-> "idle"]
    /\ h = [p \in Procs |-> NoConfig]
    /\ ident = [p \in Procs |-> ""]
    /\ existing = [p \in Procs |-> NoCheck]
    /\ deleted = [p \in Procs |-> FALSE]
    /\ seen = [p \in Procs |-> {}]
    /\ ret = NoRet
    /\ lifecycle = "running"
    /\ bulkLock = 0
    /\ oldChecks = [p \in Procs |-> {}]
    /\ newChecks = [p \in Procs |-> {}]
    /\ payload = [p \in Procs |-> <<>>]
    /\ cfg = NoConfig
    /\ verr = "unset"
    /\ http = NoHTTP
    /\ exec = NoExec
    /\ deadline = NoDeadline
    /\ \/ /\ Healthchecks = [n \in Names |-> NoCheck]
          /\ checks = [i \in Slots |-> FreeCheck]
       \/ /\ Healthchecks = [n \in Names |-> IF n = "b" THEN 1 ELSE NoCheck]
          /\ checks = [i \in Slots |-> IF i = 1 THEN Started(FileConfig) ELSE FreeCheck]

SpecBulk == InitBulk /\ [][NextBulk]_vars

\* A bulk request and a single-probe request at the same time.  The API has
\* added the healthcheck "a" earlier: it is resident with source api.  While
\* a bulk request holds bulkLock, POST /healthcheck/dns posts "a" again with
\* an interval of one second, which no bulk payload has.
ResidentConfig == SetSource(DNSConfig("a", "example.com", 2 * Second, FALSE), SourceAPI)
PostedConfig == DNSConfig("a", "example.com", Second, FALSE)

\* no healthcheck that POST /healthcheck/dns installed is resident
NonePosted ==
    \A n \in Names :
        Healthchecks[n] # NoCheck =>
            checks[Healthchecks[n]].config # SetSource(PostedConfig, SourceAPI)

InitBulkAdd ==
    /\ lock = 0
    /\ ChanResult = <<>>
    /\ pc = [p \in Procs |-> "idle"]
    /\ h = [p \in Procs |-> NoConfig]
    /\ ident = [p \in Procs |-> ""]
    /\ existing = [p \in Procs |-> NoCheck]
    /\ deleted = [p \in Procs |-> FALSE]
    /\ seen = [p \in Procs |-> {}]
    /\ ret = NoRet
    /\ lifecycle = "running"
    /\ bulkLock = 0
    /\ oldChecks = [p \in Procs |-> {}]
    /\ newChecks = [p \in Procs |-> {}]
    /\ payload = [p \in Procs |-> <<>>]
    /\ cfg = NoConfig
    /\ verr = "unset"
    /\ http = NoHTTP
    /\ exec = NoExec
    /\ deadline = NoDeadline
    /\ Healthchecks = [n \in Names |-> IF n = "a" THEN 1 ELSE NoCheck]
    /\ checks = [i \in Slots |-> IF i = 1 THEN Started(ResidentConfig) ELSE FreeCheck]

\* the bulk requests arrive while nothing that POST /healthcheck/dns
\* installed is resident, so that whatever it installed was installed after
\* the snapshot of the bulk request in progress; POST /healthcheck/dns
\* arrives while a bulk request holds bulkLock (the handler itself takes no
\* bulkLock: handleCheck, addCheck and AddCheck do not name it)
NextBulkAdd ==
    \/ \E p \in Procs, pl \in BulkPayloads : NonePosted /\ PostBulk(p, pl)
    \/ \E p \in Procs, initErr \in BOOLEAN, stopErr \in BOOLEAN, startErr \in BOOLEAN :
         BulkAdd(p, initErr, stopErr, startErr)
    \/ \E p \in Procs, startErr \in BOOLEAN : BulkAddWait(p, startErr)
    \/ \E p \in Procs : BulkReconcile(p)
    \/ \E p \in Procs : BulkReconcileWait(p)
    \/ \E p \in Procs, initErr \in BOOLEAN :
         bulkLock # 0 /\ PostHealthcheck(p, PostedConfig, initErr)
    \/ \E p \in Procs, stopErr \in BOOLEAN : removeCheck(p, stopErr)
    \/ \E p \in Procs : removeCheckDelete(p)
    \/ \E p \in Procs, startErr \in BOOLEAN : AddCheckStart(p, startErr)
    \/ \E p \in Procs : AddCheckInsert(p)
    \/ \E i \in Ids : DriverTick(i)
    \/ \E i \in Ids : DriverExecute(i)
    \/ \E i \in Ids : DriverSend(i)
    \/ \E i \in Ids : DriverDying(i)
    \/ Receive

SpecBulkAdd == InitBulkAdd /\ [][NextBulkAdd]_vars

(* ------------------------------------------------------------------ *)
(* One healthcheck, its Execute in progress, and Stop                  *)
(* ------------------------------------------------------------------ *)
\* Time is counted in whole seconds here.  The healthcheck of each kind is
\* started by the loop of DNSHealthcheck.Start and stopped by
\* DNSHealthcheck.Stop (Tick.Stop, t.Kill, t.Wait): the TCP healthcheck has
\* the same Tick and tomb fields.
Kinds == {"dns", "tcp", "command"}

\* the timeouts configured, in seconds (DNSHealthcheckConfiguration has no
\* Timeout field: for a DNS healthcheck it is the timeout asked for, which
\* its Execute never reads)
TimeoutsExec == {1, 2}

\* how long the model follows an execution, in seconds
MaxElapsed == 3

\* whether Execute runs its I/O in a context with a deadline:
\* DNSHealthcheck.Execute calls net.LookupIP(domain), with no context
HasDeadline(kind) == kind \in {"tcp", "command"}

\* the deadline of the context of Execute, in seconds, for a timeout of t
\* seconds: TCP, context.WithTimeout(ctx, time.Duration(Timeout)); Command,
\* context.WithTimeout(ctx, time.Duration(Timeout)*time.Second), that is
\* t * 10^9 seconds (t * 10^18 ns, within 64 bits for the timeouts here)
Deadline(kind, t) == IF kind = "command" THEN t * Second ELSE t

\* whether the context of Execute is derived from the tomb of the
\* healthcheck: TCP, ctx := h.t.Context(nil); Command, context.Background()
TombContext(kind) == kind = "tcp"

StartedExec(kind, t) ==
    [kind |-> kind, timeout |-> t, drv |-> "select", dying |-> FALSE, io |-> "none",
     elapsed |-> 0, err |-> "", stop |-> "idle"]

\* NewDNSHealthcheck: a healthcheck that is not started; its Tick is nil and
\* its tomb has no goroutine
NewExec(kind, t) == [NoExec EXCEPT !.kind = kind, !.timeout = t]

InitExec ==
    /\ InitRegistry
    /\ cfg = NoConfig
    /\ verr = "unset"
    /\ http = NoHTTP
    /\ deadline = NoDeadline
    /\ \E kind \in Kinds, t \in TimeoutsExec : exec = NewExec(kind, t)

execFrame == <<Healthchecks, lock, checks, ChanResult, pc, h, ident, existing,
               deleted, seen, lifecycle, bulkVars, valVars, deadline, http>>

\* Start: the ticker is created and the driver goroutine launched
StartExec ==
    /\ exec.drv = "none"
    /\ exec.stop = "idle"
    /\ exec' = StartedExec(exec.kind, exec.timeout)
    /\ ret' = NoRet
    /\ UNCHANGED execFrame

\* Stop of a healthcheck that was not started: h.Tick is nil, and
\* h.Tick.Stop() dereferences it (a nil pointer panic)
StopNotStarted ==
    /\ exec.drv = "none"
    /\ exec.stop = "idle"
    /\ exec' = [exec EXCEPT !.stop = "panic"]
    /\ ret' = NoRet
    /\ UNCHANGED execFrame

\* a second Stop of a stopped healthcheck: Tick.Stop() and t.Kill(nil) have
\* no effect and t.Wait() returns at once, the tomb being dead
StopStopped ==
    /\ exec.stop = "done"
    /\ exec.drv = "dead"
    /\ ret' = Ret("Stop", "again", "nil", FALSE)
    /\ UNCHANGED <<exec, execFrame>>

\* driver, case <-h.Tick.C: Execute is called and starts its I/O
TickExecute ==
    /\ exec.drv = "select"
    /\ ~exec.dying
    /\ exec' = [exec EXCEPT !.drv = "exec", !.io = "pending", !.elapsed = 0, !.err = ""]
    /\ ret' = NoRet
    /\ UNCHANGED execFrame

\* the I/O of Execute completes by itself: the lookup, the dial or the
\* command ends, with an error or not, and Execute returns
IOCompletes(failed) ==
    /\ exec.io = "pending"
    /\ exec' = [exec EXCEPT !.drv = "send", !.io = "none",
                            !.err = IF failed THEN "failed" ELSE "nil"]
    /\ ret' = NoRet
    /\ UNCHANGED execFrame

\* one second passes while the I/O of Execute is outstanding; a context
\* whose deadline is reached fires before more time passes
TimePasses ==
    /\ exec.io = "pending"
    /\ exec.elapsed < MaxElapsed
    /\ HasDeadline(exec.kind) => exec.elapsed < Deadline(exec.kind, exec.timeout)
    /\ exec' = [exec EXCEPT !.elapsed = @ + 1]
    /\ ret' = NoRet
    /\ UNCHANGED execFrame

\* the deadline of the context of Execute is reached: the I/O is aborted and
\* Execute returns the error of the context
DeadlineExceeded ==
    /\ exec.io = "pending"
    /\ HasDeadline(exec.kind)
    /\ exec.elapsed >= Deadline(exec.kind, exec.timeout)
    /\ exec' = [exec EXCEPT !.drv = "send", !.io = "none", !.err = "timeout"]
    /\ ret' = NoRet
    /\ UNCHANGED execFrame

\* the tomb is dying and the context of Execute is derived from it
\* (h.t.Context(nil)): the context is canceled, the I/O is aborted and Execute
\* returns the error of the context
TombContextCanceled ==
    /\ exec.io = "pending"
    /\ TombContext(exec.kind)
    /\ exec.dying
    /\ exec' = [exec EXCEPT !.drv = "send", !.io = "none", !.err = "canceled"]
    /\ ret' = NoRet
    /\ UNCHANGED execFrame

\* driver, h.ChanResult <- result (the consumer is receiving), back to select
SendResult ==
    /\ exec.drv = "send"
    /\ exec' = [exec EXCEPT !.drv = "select"]
    /\ ret' = NoRet
    /\ UNCHANGED execFrame

\* driver, case <-h.t.Dying(): the goroutine returns
DyingReturn ==
    /\ exec.drv = "select"
    /\ exec.dying
    /\ exec' = [exec EXCEPT !.drv = "dead"]
    /\ ret' = NoRet
    /\ UNCHANGED execFrame

\* Stop: Tick.Stop() and t.Kill(nil), then the caller is in t.Wait()
StopExec ==
    /\ exec.stop = "idle"
    /\ exec.drv # "none"
    /\ exec' = [exec EXCEPT !.dying = TRUE, !.stop = "wait"]
    /\ ret' = NoRet
    /\ UNCHANGED execFrame

\* Stop: t.Wait() returns once the driver goroutine has returned
StopExecReturn ==
    /\ exec.stop = "wait"
    /\ exec.drv = "dead"
    /\ exec' = [exec EXCEPT !.stop = "done"]
    /\ ret' = Ret("Stop", "", "nil", FALSE)
    /\ UNCHANGED execFrame

NextExec ==
    \/ StartExec
    \/ StopNotStarted
    \/ StopStopped
    \/ TickExecute
    \/ \E failed \in BOOLEAN : IOCompletes(failed)
    \/ TimePasses
    \/ DeadlineExceeded
    \/ TombContextCanceled
    \/ SendResult
    \/ DyingReturn
    \/ StopExec
    \/ StopExecReturn

SpecExec == InitExec /\ [][NextExec]_vars

(* ------------------------------------------------------------------ *)
(* The deadline of CommandHealthcheck.Execute, in 64-bit arithmetic    *)
(* ------------------------------------------------------------------ *)
\* A Duration is an int64 count of nanoseconds.  It is held here as four
\* 16-bit limbs, the least significant first, so that the products are
\* computed modulo 2^64 as the int64 multiplication of Go computes them.
Limb == 2^16

\* the limbs of a number below 2^31
Limbs(n) == <<n % Limb, (n \div Limb) % Limb, 0, 0>>

\* x * m modulo 2^64, for a multiplier m below 2^15
MulSmall(x, m) ==
    LET p1 == x[1] * m
        p2 == x[2] * m + (p1 \div Limb)
        p3 == x[3] * m + (p2 \div Limb)
        p4 == x[4] * m + (p3 \div Limb)
    IN  <<p1 % Limb, p2 % Limb, p3 % Limb, p4 % Limb>>

\* d * time.Second modulo 2^64: time.Second is 10^9 = 1000 * 1000 * 1000
TimesSecond(d) == MulSmall(MulSmall(MulSmall(d, 1000), 1000), 1000)

\* the largest timeout configured, in milliseconds and in seconds
MaxTimeout == 60

\* the timeouts configured: 1ms .. MaxTimeout ms and 1s .. MaxTimeout s, as
\* Durations (nanoseconds)
TimeoutsCommand ==
    {Limbs(k * 1000000) : k \in 1..MaxTimeout}
      \cup {MulSmall(Limbs(k * 1000000), 1000) : k \in 1..MaxTimeout}

InitDeadline ==
    /\ InitRegistry
    /\ cfg = NoConfig
    /\ verr = "unset"
    /\ http = NoHTTP
    /\ exec = NoExec
    /\ \E t \in TimeoutsCommand : deadline = [timeout |-> t, deadline |-> <<>>]

\* CommandHealthcheck.Execute: context.WithTimeout(context.Background(),
\* time.Duration(h.Config.Timeout)*time.Second)
CommandExecute ==
    /\ deadline.deadline = <<>>
    /\ deadline' = [deadline EXCEPT !.deadline = TimesSecond(deadline.timeout)]
    /\ UNCHANGED <<checks, ChanResult, regVars, bulkVars, valVars, exec, http>>

NextDeadline == CommandExecute

SpecDeadline == InitDeadline /\ [][NextDeadline]_vars

(* ------------------------------------------------------------------ *)
(* Properties of the registry and of the drivers                       *)
(* ------------------------------------------------------------------ *)
Quiescent == \A p \in Procs : pc[p] = "idle"

Resident(n) == Healthchecks[n] # NoCheck

\* the healthchecks named n whose driver goroutine has not returned
DriversOf(n) == {i \in Ids : checks[i].name = n /\ Alive(i)}

\* C1: with only AddCheck and RemoveCheck called (Component.Stop never is),
\* in every state where no registry operation is in progress, each name
\* resident in Healthchecks has exactly one running driver, that of the
\* resident healthcheck, and it is not being stopped; a name that is not
\* resident has no driver, and no removed or replaced healthcheck has one.
C1_ResidentHasOneDriver ==
    Quiescent =>
        /\ \A n \in Names :
             IF Resident(n)
             THEN /\ DriversOf(n) = {Healthchecks[n]}
                  /\ ~checks[Healthchecks[n]].dying
             ELSE DriversOf(n) = {}
        /\ \A i \in Ids : checks[i].removed => ~Alive(i)

\* the quiescent state in which an AddCheck that replaced a resident
\* healthcheck has returned nil, the other name being resident too
C1_Witness ==
    /\ Quiescent
    /\ ret.op = "AddCheck" /\ ret.err = "nil" /\ ret.deleted
    /\ \A n \in Names : Resident(n) /\ Alive(Healthchecks[n])

\* C2: when AddCheck returns nil, Healthchecks holds under the name the
\* healthcheck that was added, its driver is running, and every other
\* healthcheck of that name has no driver and is not resident; and at no
\* moment do two drivers run for one name.
AddCheckReturnsNil(p) == pc[p] = "add_insert" /\ pc'[p] = "idle"

C2_AddPostcondition ==
    /\ [][\A p \in Procs : AddCheckReturnsNil(p) =>
            LET n == ident[p]
                q == existing[p]
            IN  /\ ret' = Ret("AddCheck", n, "nil", deleted[p])
                /\ Healthchecks'[n] = q
                /\ checks'[q].config = h[p]
                /\ checks'[q].drv \in {"select", "exec", "send"}
                /\ ~checks'[q].dying
                /\ \A i \in Slots \ {q} :
                     checks'[i].name = n => checks'[i].drv = "dead"]_vars
    /\ [](\A n \in Names : Cardinality(DriversOf(n)) <= 1)

\* an AddCheck that replaced a resident healthcheck has returned nil: the
\* new healthcheck is the only one of its name
C2_Witness ==
    /\ ret.op = "AddCheck" /\ ret.err = "nil" /\ ret.deleted
    /\ Resident(ret.name)
    /\ \A i \in Ids \ {Healthchecks[ret.name]} : checks[i].name # ret.name

\* C3: when removeCheck deletes a healthcheck (so when RemoveCheck returns),
\* its driver has returned and nothing of it is left to send a Result; a
\* healthcheck that was removed never sends a Result on the channel.
Sends(i) ==
    /\ checks[i].drv = "send" /\ checks'[i].drv # "send"
    /\ Len(ChanResult') > Len(ChanResult)

Deletes(p) == pc[p] \in {"add_wait", "rm_wait"} /\ pc'[p] # pc[p]

C3_NoResultAfterRemove ==
    [][/\ \A p \in Procs : Deletes(p) =>
             /\ checks[existing[p]].drv = "dead"
             /\ checks'[existing[p]] = FreeCheck
       /\ \A i \in Ids : checks[i].removed =>
             /\ checks[i].drv = "dead" /\ checks'[i].drv = "dead"
             /\ ~Sends(i)]_vars

\* RemoveCheck has returned nil for a healthcheck that it deleted and whose
\* earlier Result is still in the channel
C3_Witness ==
    /\ ret.op = "RemoveCheck" /\ ret.err = "nil" /\ ret.deleted
    /\ ~Resident(ret.name)
    /\ \E k \in 1..Len(ChanResult) : ChanResult[k].name = ret.name

\* C4: AddCheck starts the new healthcheck only once the driver of the one
\* it replaces has returned; when the driver of a healthcheck starts an
\* Execute, every other healthcheck of the same name has a driver that has
\* returned, and a driver that has returned never runs again.
C4_StopBeforeFirstExecute ==
    [][/\ \A p \in Procs : (pc[p] = "add_wait" /\ pc'[p] = "add_start") =>
             checks[existing[p]].drv = "dead"
       /\ \A q \in Ids : (checks[q].drv = "select" /\ checks'[q].drv = "exec") =>
            \A i \in Ids \ {q} :
               checks[i].name = checks[q].name => checks[i].drv = "dead"
       /\ \A i \in Ids : checks[i].drv = "dead" => checks'[i].drv \in {"dead", "free"}]_vars

\* the healthcheck started by an AddCheck that replaced a resident
\* healthcheck is at its first Execute
C4_Witness ==
    \E p \in Procs :
        /\ pc[p] = "add_insert" /\ deleted[p]
        /\ checks[existing[p]].drv = "exec"

\* C5: a driver that is at its channel send while a Stop of its healthcheck
\* is pending is never blocked: it can abandon the send and return, so that
\* the t.Wait() of Stop returns.
C5_StopUnblocksSend ==
    \A i \in Ids : (checks[i].drv = "send" /\ checks[i].dying) => ENABLED DriverStep(i)

\* C6: when Component.Stop returns an error, every resident healthcheck but
\* the one whose Stop failed has been stopped: at most one resident
\* healthcheck still has a driver.
StopReturnsError(p) ==
    pc[p] = "stop_loop" /\ pc'[p] = "idle" /\ ret'.err = "stop"

C6_StopAttemptsAll ==
    [][\A p \in Procs : StopReturnsError(p) =>
          Cardinality({n \in Names : Healthchecks'[n] # NoCheck
                          /\ checks'[Healthchecks'[n]].drv # "dead"}) <= 1]_vars

\* C7: once Component.Stop has returned nil the registry is stopped: no
\* later operation changes the set of resident healthchecks and no driver
\* is started.
C7_StoppedRejectsMutation ==
    [][lifecycle = "stopped" =>
          /\ \A i \in FreeSlots : checks'[i] = FreeCheck
          /\ Healthchecks' = Healthchecks]_vars

\* C8: a RemoveCheck that returns nil for a resident name has stopped that
\* healthcheck (its driver has returned) and deleted its entry, and only
\* that entry; a RemoveCheck of a name that is not resident returns nil and
\* changes neither the map nor any healthcheck.
RemoveStep(p) == pc[p] \in {"rm_remove", "rm_wait"} /\ pc'[p] # pc[p]

C8_RemoveEffect ==
    [][\A p \in Procs : RemoveStep(p) =>
          LET n == ident[p]
              e == Healthchecks[n]
          IN  IF e = NoCheck
              THEN /\ pc'[p] = "idle" /\ ret' = Ret("RemoveCheck", n, "nil", FALSE)
                   /\ Healthchecks' = Healthchecks
                   /\ checks' = checks
              ELSE (pc'[p] = "idle" /\ ret'.err = "nil") =>
                   /\ ret'.deleted
                   /\ Healthchecks' = [Healthchecks EXCEPT ![n] = NoCheck]
                   /\ checks[e].drv = "dead"
                   /\ checks'[e] = FreeCheck
                   /\ \A i \in Slots \ {e} : checks'[i] = checks[i]]_vars

\* a RemoveCheck has returned nil after it deleted the healthcheck of its
\* name, the healthcheck of the other name being left running
C8_Witness ==
    /\ ret.op = "RemoveCheck" /\ ret.err = "nil" /\ ret.deleted
    /\ ~Resident(ret.name)
    /\ \E n \in Names \ {ret.name} : Resident(n) /\ Alive(Healthchecks[n])

\* C9: no healthcheck whose configuration fails its validation is resident.
C9_InvalidNeverResident ==
    \A n \in Names :
        Resident(n) => Validate(checks[Healthchecks[n]].config) = "ok"

\* C11: when AddCheck returns the error of Initialize, no driver was
\* started and the registry is as it was: the map, every healthcheck (the
\* one resident under the name included), the channel and the lock.
C11_InitFailureNoChange ==
    [][(ret'.op = "AddCheck" /\ ret'.err = "init") =>
          UNCHANGED <<Healthchecks, checks, ChanResult, lock>>]_vars

\* AddCheck has returned the error of Initialize for a name whose resident
\* healthcheck is running
C11_Witness ==
    /\ ret.op = "AddCheck" /\ ret.err = "init"
    /\ Resident(ret.name)
    /\ Alive(Healthchecks[ret.name]) /\ ~checks[Healthchecks[ret.name]].dying

\* C12: when AddCheck returns the error of Start, the name is not resident
\* and no healthcheck was created; and every entry of the map is a
\* healthcheck whose Start returned nil.
C12_StartFailureNotResident ==
    /\ [][(ret'.op = "AddCheck" /\ ret'.err = "start") =>
             /\ Healthchecks'[ret'.name] = NoCheck
             /\ checks' = checks]_vars
    /\ [](\A n \in Names : Resident(n) => Healthchecks[n] \in Ids)

\* AddCheck has returned the error of Start after it removed the
\* healthcheck resident under the name
C12_Witness ==
    /\ ret.op = "AddCheck" /\ ret.err = "start" /\ ret.deleted
    /\ ~Resident(ret.name)

\* C13: a one-off execution changes neither the map nor any healthcheck nor
\* the channel (it starts no driver and sends no Result), and no one-off
\* healthcheck ever is started or resident.
C13_OneOffLeavesRegistry ==
    /\ [][ret'.op = "oneOff" =>
             UNCHANGED <<Healthchecks, checks, ChanResult, lock>>]_vars
    /\ [](\A i \in Ids : ~checks[i].config.oneOff)

\* a one-off execution has returned its result while a healthcheck of the
\* same name is resident and running
C13_Witness ==
    /\ ret.op = "oneOff" /\ ret.err \in {"nil", "execute"}
    /\ Resident(ret.name) /\ Alive(Healthchecks[ret.name])

\* the caller that is in the bulk handler and answers it in this step
BulkAnswers(p, err) ==
    /\ pc[p] \in BulkLabels
    /\ pc'[p] = "idle"
    /\ ret'.op = "bulk"
    /\ ret'.err = err

\* C14: when a bulk request succeeds (no other operation being in flight),
\* with N the names it installed and old the api-sourced names it found:
\* the api-sourced resident healthchecks are exactly N, each of them with a
\* running driver that is not being stopped; every name of old \ N is not
\* resident and has no driver; and a name ceases to be resident during a bulk
\* request only if it is in old \ N (or its replacement failed to start).
C14_BulkReconcileExact ==
    /\ [][\A p \in Procs : BulkAnswers(p, "nil") =>
            /\ SourceChecksNames(SourceAPI)' = newChecks[p]
            /\ \A n \in newChecks[p] :
                 /\ Alive(Healthchecks[n])'
                 /\ ~checks'[Healthchecks'[n]].dying
            /\ \A n \in oldChecks[p] \ newChecks[p] :
                 /\ Healthchecks'[n] = NoCheck
                 /\ DriversOf(n)' = {}]_vars
    /\ [][\A n \in Names : (Healthchecks[n] # NoCheck /\ Healthchecks'[n] = NoCheck) =>
            /\ bulkLock # 0
            /\ \/ n \in oldChecks[bulkLock] \ newChecks[bulkLock]
               \/ ret'.err = "start"]_vars

\* a bulk request has succeeded and has removed "a", which a former request
\* had installed; "b" is resident from the api source
C14_Witness ==
    /\ ret.op = "bulk" /\ ret.err = "nil" /\ ret.deleted
    /\ ~Resident("a") /\ DriversOf("a") = {}
    /\ SourceChecksNames(SourceAPI) = {"b"}

\* C15: when a bulk request fails at the Add of one of its healthchecks, it
\* has installed or replaced no healthcheck of its payload.
C15_BulkAtomic ==
    [][\A p \in Procs, err \in {"init", "stop", "start"} :
          BulkAnswers(p, err) => newChecks[p] = {}]_vars

\* C16: at most one caller is between the snapshot of the api names and the
\* end of the reconcile pass of a bulk request (the snapshot, the adds and
\* the reconcile of a request are not interleaved with those of another), the
\* caller that is holds bulkLock, and when a request succeeds the api-sourced
\* resident names are those of its payload, whatever requests are waiting.
C16_BulkSerialised ==
    /\ [](\A p, q \in Procs : (pc[p] \in BulkLabels /\ pc[q] \in BulkLabels) => p = q)
    /\ [](\A p \in Procs : pc[p] \in BulkLabels <=> bulkLock = p)
    /\ [][\A p \in Procs : BulkAnswers(p, "nil") =>
            {n \in Names : Healthchecks'[n] # NoCheck
                           /\ checks'[Healthchecks'[n]].config.source = SourceAPI}
              = newChecks[p]]_vars

\* a second bulk request has succeeded after a first one: it found the api
\* names of the first one ("a" and "b"), and left its own ("a")
C16_Witness ==
    /\ ret.op = "bulk" /\ ret.err = "nil" /\ ret.deleted
    /\ SourceChecksNames(SourceAPI) = {"a"}
    /\ ~Resident("b")

\* C17: when the Execute of a healthcheck returns an error, its driver holds
\* a Result with success = false and goes to the send, and no registry
\* operation returns in that step; the send puts that Result at the end of
\* the channel and the driver is back at its select; a driver returns only
\* when its healthcheck is being stopped; and no registry operation returns
\* the error of an execution.
C17_ExecuteErrorCaptured ==
    /\ [][\A i \in Slots :
            (checks[i].drv = "exec" /\ checks'[i].drv # "exec" /\ Execute(checks[i].config)) =>
               /\ checks'[i].drv = "send"
               /\ checks'[i].result = [name |-> checks[i].name, success |-> FALSE]
               /\ checks'[i].dying = checks[i].dying
               /\ ret' = NoRet]_vars
    /\ [][\A i \in Slots :
            (checks[i].drv = "send" /\ checks'[i].drv # "send") =>
               /\ ChanResult' = Append(ChanResult, checks[i].result)
               /\ checks'[i].drv = "select"]_vars
    /\ [][\A i \in Slots :
            (Alive(i) /\ checks'[i].drv = "dead") => checks[i].dying]_vars
    /\ [](ret.op \in {"AddCheck", "RemoveCheck", "Stop"} => ret.err # "execute")

\* the failed execution of "b" is in the channel as a Result with
\* success = false, and the driver of "b", which is not being stopped, is
\* executing again
C17_Witness ==
    /\ Len(ChanResult) > 0
    /\ ChanResult[1] = [name |-> "b", success |-> FALSE]
    /\ Resident("b")
    /\ checks[Healthchecks["b"]].drv = "exec"
    /\ ~checks[Healthchecks["b"]].dying

\* C18: an Execute that is in progress when its healthcheck is being stopped
\* ends by itself or by its own timeout (never because of the Stop), and the
\* driver returns only when no Execute is in progress.
C18_StopDoesNotAbortExecute ==
    /\ [][(exec.io = "pending" /\ exec.dying /\ exec'.io = "none") =>
             exec'.err \in {"nil", "failed", "timeout"}]_vars
    /\ [][(exec.drv # "dead" /\ exec'.drv = "dead") => exec.io = "none"]_vars

\* C19: an Execute in progress has not run for longer than the timeout of its
\* healthcheck (at the timeout it is aborted and returns), whatever the kind.
C19_ExecuteBoundedByTimeout ==
    exec.io = "pending" => exec.elapsed <= exec.timeout

\* C20: the deadline that CommandHealthcheck.Execute gives to the subprocess
\* is the configured timeout, as a 64-bit count of nanoseconds.
C20_CommandDeadlineIsTimeout ==
    deadline.deadline # <<>> => deadline.deadline = deadline.timeout

\* C21: a driver that holds a Result stays at its send, with that Result,
\* as long as the channel has no room; it leaves the send only by putting the
\* Result at the end of the channel; the channel changes only by such a send
\* or by the consumer taking its first Result; and the healthcheck of a
\* driver that holds a Result is not discarded.  So no Result is dropped,
\* whether a stop is pending or not.
C21_NoResultLost ==
    /\ [][\A i \in Slots :
            (checks[i].drv = "send" /\ Len(ChanResult) >= ChanCap /\ ChanResult' = ChanResult) =>
               /\ checks'[i].drv = "send"
               /\ checks'[i].result = checks[i].result]_vars
    /\ [][\A i \in Slots :
            (checks[i].drv = "send" /\ checks'[i].drv # "send") =>
               /\ Len(ChanResult) < ChanCap
               /\ checks'[i].drv = "select"
               /\ ChanResult' = ChanResult \o <<checks[i].result>>]_vars
    /\ [][ChanResult' # ChanResult =>
            \/ Len(ChanResult) > 0 /\ ChanResult' = Tail(ChanResult)
            \/ \E i \in Slots : /\ checks[i].drv = "send"
                                /\ checks[i].result.name = checks[i].name
                                /\ ChanResult' = ChanResult \o <<checks[i].result>>]_vars

\* the driver of a resident healthcheck that is not being stopped holds a
\* Result and is blocked at its send: the channel is full
C21_Witness ==
    \E n \in Names :
      /\ Resident(n)
      /\ checks[Healthchecks[n]].drv = "send"
      /\ ~checks[Healthchecks[n]].dying
      /\ checks[Healthchecks[n]].result.name = n
      /\ Len(ChanResult) = ChanCap

\* C22: a driver takes a tick (and so executes and forms a Result) only when
\* its healthcheck is resident under its name (the AddCheck that installed it
\* has made the map assignment, with which it returns), unless the
\* healthcheck is being stopped.
C22_FirstTickAfterAdd ==
    [][\A i \in Slots :
         (checks[i].drv = "select" /\ checks'[i].drv = "exec" /\ ~checks[i].dying) =>
            Healthchecks[checks[i].name] = i]_vars

\* C23: a caller of RemoveCheck that waits for the Stop of the healthcheck
\* it removes (t.Wait()) does not hold Component.lock, so a reader of the map
\* can take the lock meanwhile.
C23_RemoveWaitsUnlocked ==
    \A p \in Procs : pc[p] = "rm_wait" => lock # p

\* C24: no Stop of a healthcheck ends in a panic, whatever the state of the
\* healthcheck (not started, running, stopped).
C24_StopSafeInEveryState ==
    exec.stop # "panic"

\* C25: no healthcheck with one-off set is resident or has a driver,
\* whichever requests the bulk handler has received.
C25_OneOffNeverResident ==
    /\ \A n \in Names : Resident(n) => ~checks[Healthchecks[n]].config.oneOff
    /\ \A i \in Ids : Alive(i) => ~checks[i].config.oneOff

\* C27: with Basic Auth configured, a request enters a handler (and so can
\* change the registry) only when it carries the configured username and
\* password; a request with other credentials is answered by the middleware
\* and changes nothing.
C27_BasicAuthRejectsMismatch ==
    /\ [][\A p \in Procs : (pc[p] = "idle" /\ pc'[p] # "idle") => http'.authorized]_vars
    /\ [][(http'.authorized = FALSE /\ ret'.op \in {"handler", "oneOff", "AddCheck"})
             => \E p \in Procs : pc[p] # "idle"]_vars

\* C28: when RemoveCheck or a replacing AddCheck returns the error of the
\* Stop of the existing healthcheck, the map is unchanged and the name is
\* still resident with the healthcheck it had, no healthcheck has been
\* started, and the lock is released.
C28_StopFailureKeepsExisting ==
    [][(ret'.op \in {"AddCheck", "RemoveCheck"} /\ ret'.err = "stop") =>
          /\ Healthchecks' = Healthchecks
          /\ Healthchecks'[ret'.name] # NoCheck
          /\ checks'[Healthchecks'[ret'.name]].config = checks[Healthchecks[ret'.name]].config
          /\ \A i \in Slots : checks[i].drv = "free" => checks'[i].drv = "free"
          /\ lock' = 0]_vars

\* a replacing AddCheck has returned the error of the Stop of the resident
\* healthcheck, which is still resident with its driver
C28_Witness ==
    /\ ret.op = "AddCheck" /\ ret.err = "stop"
    /\ Resident(ret.name)
    /\ Alive(Healthchecks[ret.name])

\* the caller that holds Component.lock is in an operation on the name n
OperatesOn(n) == lock # 0 /\ ident[lock] = n

\* C29: with AddCheck and RemoveCheck only, the entry of a name in the map
\* changes, a healthcheck of that name begins to be stopped, and a healthcheck
\* of that name is started, only in a step of the operation that holds the
\* lock and whose argument is that name: the healthchecks of the other names
\* stay resident, running, neither stopped nor restarted.
C29_OnlyNamedEntryChanges ==
    /\ [][\A n \in Names : Healthchecks'[n] # Healthchecks[n] => OperatesOn(n)]_vars
    /\ [][\A i \in Slots :
            (checks[i].drv # "free" /\ ~checks[i].dying /\ checks'[i].dying) =>
               OperatesOn(checks[i].name)]_vars
    /\ [][\A i \in Slots :
            (checks[i].drv = "free" /\ checks'[i].drv # "free") =>
               OperatesOn(checks'[i].name)]_vars
    /\ [][\A i \in Slots :
            (Alive(i) /\ ~checks[i].dying /\ ~OperatesOn(checks[i].name)) =>
               /\ checks'[i].drv \in {"select", "exec", "send"}
               /\ checks'[i].config = checks[i].config]_vars

\* RemoveCheck("b") has deleted "b" while "a" stays resident with its driver
\* running
C29_Witness ==
    /\ ret.op = "RemoveCheck" /\ ret.name = "b" /\ ret.err = "nil" /\ ret.deleted
    /\ Resident("a")
    /\ Alive(Healthchecks["a"])
    /\ ~checks[Healthchecks["a"]].dying

\* C30: no step of a bulk request stops, removes or replaces a resident
\* healthcheck whose source is not api: it stays resident under its name, the
\* same healthcheck, and is not being stopped.
C30_BulkLeavesOtherSources ==
    [][\A n \in Names :
         (Healthchecks[n] # NoCheck
          /\ checks[Healthchecks[n]].config.source # SourceAPI
          /\ ~checks[Healthchecks[n]].dying) =>
            /\ Healthchecks'[n] = Healthchecks[n]
            /\ ~checks'[Healthchecks[n]].dying
            /\ checks'[Healthchecks[n]].config = checks[Healthchecks[n]].config]_vars

\* C31: a healthcheck that POST /healthcheck/dns installed while a bulk
\* request was in progress, after that request had taken its snapshot of
\* the api names, is not removed by the reconcile pass of that request: the
\* pass never stops it.
C31_ConcurrentAddSurvivesReconcile ==
    [][\A p \in Procs :
         (pc[p] = "bulk_reconcile" /\ pc'[p] = "bulk_rwait") =>
            checks[existing'[p]].config # SetSource(PostedConfig, SourceAPI)]_vars

(* ------------------------------------------------------------------ *)
(* Validation of the configurations, over a set of configurations      *)
(* ------------------------------------------------------------------ *)
NamesV == {"", "a"}
IdentsV == {"", "x"}
PortsV == {0, 80}
TimeoutsV == {0, Second, 2 * Second + 50}
IntervalsV == {0, 4, 5, Second, 2 * Second, 2 * Second + 100}

ValConfigs ==
    {Config("dns", n, d, 0, 0, i, o) :
        n \in NamesV, d \in IdentsV, i \in IntervalsV, o \in BOOLEAN}
    \cup {Config("tcp", n, d, pt, t, i, o) :
        n \in NamesV, d \in IdentsV, pt \in PortsV, t \in TimeoutsV,
        i \in IntervalsV, o \in BOOLEAN}
    \cup {Config("command", n, d, 0, t, i, o) :
        n \in NamesV, d \in IdentsV, t \in TimeoutsV, i \in IntervalsV, o \in BOOLEAN}

InitValidate ==
    /\ InitRegistry
    /\ cfg \in ValConfigs
    /\ verr = "unset"
    /\ http = NoHTTP
    /\ exec = NoExec
    /\ deadline = NoDeadline

\* a handler validates the configuration it has bound
ValidateConfig ==
    /\ verr = "unset"
    /\ http = NoHTTP
    /\ verr' = Validate(cfg)
    /\ UNCHANGED <<cfg, checks, ChanResult, regVars, bulkVars, execVars, http>>

NextValidate == ValidateConfig

SpecValidate == InitValidate /\ [][NextValidate]_vars

\* the rule of the specification: which configurations validation rejects
HasTimeout(config) == config.kind \in {"tcp", "command"}

IdentifierEmpty(config) ==
    \/ config.name = ""
    \/ config.ident = ""
    \/ config.kind = "tcp" /\ config.port = 0

RuleRejects(config) ==
    \/ IdentifierEmpty(config)
    \/ HasTimeout(config) /\ config.timeout = 0
    \/ /\ ~config.oneOff
       /\ \/ config.interval < 2 * Second
          \/ HasTimeout(config) /\ config.interval < config.timeout

\* C10: for every kind and every configuration, validation returns an error
\* exactly when an identifier is empty, the timeout is zero or, the
\* healthcheck not being one-off, the interval is below 2 s or below the
\* timeout.
C10_ValidationRule ==
    verr # "unset" => ((verr # "ok") <=> RuleRejects(cfg))

(* ------------------------------------------------------------------ *)
(* The one-off executor, in the two variants of the handlers           *)
(* ------------------------------------------------------------------ *)
\* oneOff: Initialize, Execute, and the response.  The first variant answers
\* 201 with the Result of the execution, its Source set to "one-off",
\* whether Execute failed or not; the second variant returns an internal
\* error when Execute fails, and a message when it succeeds.
oneOff(variant, config, initErr) ==
    IF initErr
    THEN Response("InternalServerError", IF variant = 1 THEN "message" ELSE "error",
                  "", FALSE, "init")
    ELSE IF variant = 1
    THEN Response("Created", "result", "one-off",
                  NewResult(config.name, Execute(config)).success,
                  IF Execute(config) THEN "execute" ELSE "success")
    ELSE IF Execute(config)
    THEN Response("InternalServerError", "error", "", FALSE, "execute")
    ELSE Response("Created", "message", "", FALSE, "success")

\* the one-off healthchecks posted
OneOffRequests == {c \in ValConfigs : c.oneOff} \cup OneOffConfigs

InitOneOff ==
    /\ InitRegistry
    /\ cfg \in OneOffRequests
    /\ verr = "unset"
    /\ exec = NoExec
    /\ deadline = NoDeadline
    /\ \E variant \in Variants : http = [NoHTTP EXCEPT !.variant = variant]

\* POST /healthcheck/<kind> with a one-off healthcheck: config.Validate(),
\* then handleCheck, which calls oneOff
PostOneOff(initErr) ==
    /\ verr = "unset"
    /\ verr' = Validate(cfg)
    /\ IF Validate(cfg) # "ok"
       THEN /\ ~initErr
            /\ http' = [http EXCEPT
                          !.response = Response("BadRequest", "message", "", FALSE, "invalid")]
       ELSE http' = [http EXCEPT !.response = oneOff(http.variant, cfg, initErr)]
    /\ UNCHANGED <<cfg, checks, ChanResult, regVars, bulkVars, execVars>>

NextOneOff == \E initErr \in BOOLEAN : PostOneOff(initErr)

SpecOneOff == InitOneOff /\ [][NextOneOff]_vars

\* C26: the response to a valid one-off request whose Initialize succeeded
\* is a Result with source "one-off", with success = true when Execute
\* succeeded and success = false when it failed, and the request itself
\* succeeds (201) in both cases.
C26_OneOffResult ==
    (verr = "ok" /\ http.response.message \in {"success", "execute"}) =>
       /\ http.response.status = "Created"
       /\ http.response.body = "result"
       /\ http.response.source = "one-off"
       /\ http.response.success = ~Execute(cfg)

====
